---------------------------- MODULE Spec2Model ----------------------------
(***************************************************************************)
(* Model of the boletin_caba ingestion pipeline:                           *)
(*   scripts/boletin_oficial_api.py   obtener_boletin,                     *)
(*                                    obtener_boletines_desde_fecha        *)
(*   scripts/utils_logs.py            the two error-log reconcilers        *)
(*   scripts/storage.py               upsert_data                          *)
(*   scripts/transformaciones_licitaciones.py                              *)
(*                                    normalizar_etapa,                    *)
(*                                    procesar_licitaciones_con_progreso   *)
(*                                                                         *)
(* Python strings whose characters the code inspects are sequences of      *)
(* one-character strings; None is the record/flag noted at each use.       *)
(***************************************************************************)
EXTENDS Integers, Sequences, FiniteSets, TLC

VARIABLES
    \* ---- one call of obtener_boletin (SpecBoletin)
    ob_fecha,        \* argument fecha
    ob_retries,      \* argument retries
    ob_intento,      \* loop variable intento
    ob_pc,           \* "loop" | "post_loop" | "returned" | "raised"
    ob_ret,          \* value returned
    ob_peticiones,   \* HTTP outcomes of the requests issued so far

    \* ---- obtener_boletines_desde_fecha and the runs around it
    fecha_inicio_dt,       \* cursor (day ordinal)
    resultados,            \* list of new records
    errores_boletines,     \* list of failure entries of this run
    boletines_descargados, \* seen-this-run set
    boletines_existentes,  \* argument
    fechas_cubiertas,      \* argument
    fecha_inicio,          \* argument
    pc,                    \* "walk" (head of the while loop) | "loop" | "post_loop"
                           \* (inside the obtener_boletin call) | "done" | "raised"
    intento,               \* loop variable of the obtener_boletin call in progress
    corrida,               \* number of the run in progress
    modo,                  \* "primera" | "identica" | "actualizada" | "libre"
    servidor,              \* per date, the HTTP outcomes the API gave in the first run
    consultadas,           \* dates for which obtener_boletin was invoked in this run
    resultados_1,          \* result of the first run
    log_errores,           \* logs/log_errores_boletines.csv
    log_corregidos,        \* logs/log_errores_corregidos.csv

    \* ---- one call of a reconciler of utils_logs.py (SpecLogs)
    rc_variante,     \* "boletines" | "normas"
    rc_buenas,       \* fechas_cubiertas, or the id_norma column of df_normas_actual
    rc_log,          \* the pending log file
    rc_corregidos,   \* the corrected log file
    rc_previos,      \* the pending log file as it was before the call
    rc_corr_previos, \* the corrected log file as it was before the call
    rc_pc,           \* "antes" | "despues"

    \* ---- one call of procesar_licitaciones_con_progreso (SpecLicitaciones)
    lic_columnas,    \* the columns df has
    lic_total,       \* len(df)
    lic_filas,       \* the rows of df iterated so far
    df_empresas,     \* the registry table: rows (company_name_normalized, cuit_empresa)
    bloque_size,     \* argument
    lic_resultados,  \* resultados
    id_licitacion,   \* the local of that name: [ligada |-> BOOLEAN, valor |-> id]
    lic_pc,          \* "loop" | "returned" | "raised"

    \* ---- upsert_data calls on one Delta table (SpecUpsert)
    tabla,           \* [existe |-> BOOLEAN, filas |-> number of rows per key]
    up_llamadas,     \* calls made so far

    \* ---- normalizar_etapa applied twice (SpecEtapa)
    et_entrada,      \* the argument
    et_salidas,      \* the values returned so far: f(x), then f(f(x))

    \* ---- passes of procesar_licitaciones (SpecPdf)
    errores_pdf_normas,  \* BoletinOficialAPI.errores_pdf_normas
    PDF_DIR,             \* data/pdfs: per id_norma no file, a readable or an unreadable one
    textos_pdf,          \* textos_pdf of the pass in progress
    pdf_total,           \* len(df_licitaciones)
    pdf_pasadas,         \* passes started so far
    pdf_fallos,          \* id_norma of the rows of this pass whose download or extraction failed
    pdf_pc,              \* "idle" | "loop" | "returned"

    \* ---- normalizar_sufijos applied twice (SpecSufijos)
    suf_entrada,     \* the argument
    suf_salidas,     \* the values returned so far: f(x), then f(f(x))

    \* ---- one call of buscar_empresas_fuzzy (SpecFuzzy)
    fz_texto,        \* texto
    fz_empresas,     \* empresas_normalizadas
    fz_threshold,    \* threshold
    fz_ret,          \* the list returned
    fz_pc            \* "call" | "returned"

obVars == <<ob_fecha, ob_retries, ob_intento, ob_pc, ob_ret, ob_peticiones>>
walkVars == <<fecha_inicio_dt, resultados, errores_boletines, boletines_descargados,
              boletines_existentes, fechas_cubiertas, fecha_inicio, pc, intento,
              corrida, modo,
              servidor, consultadas, resultados_1, log_errores, log_corregidos>>
rcVars == <<rc_variante, rc_buenas, rc_log, rc_corregidos, rc_previos, rc_corr_previos,
            rc_pc>>
licVars == <<lic_columnas, lic_total, lic_filas, df_empresas, bloque_size, lic_resultados,
             id_licitacion, lic_pc>>
upVars == <<tabla, up_llamadas>>
etVars == <<et_entrada, et_salidas>>
pdfVars == <<errores_pdf_normas, PDF_DIR, textos_pdf, pdf_total, pdf_pasadas, pdf_fallos,
             pdf_pc>>
sufVars == <<suf_entrada, suf_salidas>>
fzVars == <<fz_texto, fz_empresas, fz_threshold, fz_ret, fz_pc>>
vars == <<obVars, walkVars, rcVars, licVars, upVars, etVars, pdfVars, sufVars, fzVars>>

-----------------------------------------------------------------------------
(* Bounds *)

PrimerDia == 31          \* earliest start date considered (day of 2025)
NumDias == 2             \* days from PrimerDia to today, inclusive
MaxRetries == 2          \* largest retries argument tried
MaxNumero == 2           \* bulletin numbers 1..MaxNumero
MaxCorridas == 2         \* runs of the pipeline in SpecCorridas
MaxFilas == 2            \* rows of a pending log handed to a reconciler
MaxIdNorma == 2          \* id_norma values 1..MaxIdNorma
MaxClave == 3            \* key values 1..MaxClave of the upserted table
MaxLote == 2             \* rows of a batch handed to upsert_data
MaxUpserts == 3          \* calls of upsert_data
MaxPalabras == 2         \* words of a tender text
MaxRegistros == 2        \* rows of the table of tender texts
MaxBloque == 2           \* largest bloque_size tried

-----------------------------------------------------------------------------
(* Strings *)

\* s[i..] starts with p
EsPrefijo(p, s, i) ==
    /\ i + Len(p) - 1 <= Len(s)
    /\ \A k \in 1..Len(p) : s[i + k - 1] = p[k]

\* Python: p in s
Contiene(p, s) == \E i \in 1..(Len(s) + 1) : EsPrefijo(p, s, i)

\* Python: s.startswith(p)
StartsWith(s, p) == EsPrefijo(p, s, 1)

Digito == <<"0", "1", "2", "3", "4", "5", "6", "7", "8", "9">>

\* Python: f"{n}" for a three-digit status code
StrStatus(n) ==
    <<Digito[(n \div 100) + 1], Digito[((n \div 10) % 10) + 1], Digito[(n % 10) + 1]>>

Msg404 == <<"4","0","4"," ","N","o","t"," ","F","o","u","n","d">>
PrefHTTP == <<"H","T","T","P"," ">>
HTTP == <<"H","T","T","P">>
Desconocido == <<"D","e","s","c","o","n","o","c","i","d","o">>
MsgTimeout == <<"t","i","m","e","d"," ","o","u","t">>
MsgPool == <<"H","T","T","P","S","C","o","n","n","e","c","t","i","o","n","P","o","o","l">>
MsgJson == <<"E","x","p","e","c","t","i","n","g"," ","v","a","l","u","e">>
MsgSinMensaje == <<"E","r","r","o","r"," ","e","n"," ","n","o","r","m","a","s">>
MsgXml == <<"X","M","L"," ","n","o"," ","e","n","c","o","n","t","r","a","d","o">>

-----------------------------------------------------------------------------
(* Dates: datetime values are day ordinals of 2025, "%d-%m-%Y" strings are   *)
(* <<dd, mm, yyyy>>.                                                        *)

DiasMes == <<31, 28, 31, 30, 31, 30, 31, 31, 30, 31, 30, 31>>

RECURSIVE DiasAntes(_)
DiasAntes(m) == IF m = 1 THEN 0 ELSE DiasAntes(m - 1) + DiasMes[m - 1]

\* datetime.strftime("%d-%m-%Y")
Strftime(d) ==
    LET m == CHOOSE k \in 1..12 : DiasAntes(k) < d /\ d <= DiasAntes(k) + DiasMes[k]
    IN  <<d - DiasAntes(m), m, 2025>>

\* datetime.strptime(s, "%d-%m-%Y")
Strptime(s) == DiasAntes(s[2]) + s[1]

\* datetime.today()
hoy == PrimerDia + NumDias - 1

Dias == PrimerDia..hoy
Fechas == {Strftime(d) : d \in Dias}
Numeros == 1..MaxNumero


-----------------------------------------------------------------------------
(* HTTP outcomes of requests.get(url) and the bodies resp.json() yields.     *)
(*   json:    "obj" a non-empty object, "vacio" {}, "invalido" json() raises *)
(*   boletin: "dict" | "ausente" (no 'boletin' key) | "nodict" (not a dict)  *)
(*   normas:  "ok" | "errores" (['XML no encontrado']) | "errores_vacio" ([])*)

Body(j, b, n, nm) == [json |-> j, boletin |-> b, numero |-> n, normas |-> nm]

BodyOk(n) == Body("obj", "dict", n, "ok")
BodyErrores(n) == Body("obj", "dict", n, "errores")
BodySinBoletin == Body("obj", "ausente", 0, "ok")
BodyVacio == Body("vacio", "ausente", 0, "ok")
BodyInvalido == Body("invalido", "ausente", 0, "ok")
BodyNoDict == Body("obj", "nodict", 0, "ok")

Resp(st, b) == [tipo |-> "resp", status |-> st, body |-> b, msg |-> <<>>]
Exc(m) == [tipo |-> "exc", status |-> 0, body |-> BodyVacio, msg |-> m]

\* every outcome one request can have
Outcomes ==
    {Resp(200, BodyOk(n)) : n \in Numeros}
      \cup {Resp(200, BodyErrores(1)), Resp(200, BodySinBoletin), Resp(200, BodyVacio),
            Resp(200, BodyInvalido), Resp(200, BodyNoDict),
            Resp(404, BodyVacio), Resp(403, BodyVacio), Resp(400, BodyVacio),
            Resp(500, BodyVacio), Resp(503, BodyVacio),
            Exc(MsgTimeout), Exc(MsgPool)}

-----------------------------------------------------------------------------
(* obtener_boletin *)

\* the values obtener_boletin can produce: a dict with the keys `claves`,
\* None, the bare resp.json() of the code after the loop, or a raised exception
RetData(d, f) == [tipo |-> "dict", claves |-> {"data", "fecha"}, data |-> d,
                  error |-> <<>>, fecha |-> f]
RetError(e, f) == [tipo |-> "dict", claves |-> {"error", "fecha"}, data |-> BodyVacio,
                   error |-> e, fecha |-> f]
RetNone == [tipo |-> "None", claves |-> {}, data |-> BodyVacio, error |-> <<>>,
            fecha |-> <<0, 0, 0>>]
RetJson(d) == [tipo |-> "json", claves |-> {}, data |-> d, error |-> <<>>,
               fecha |-> <<0, 0, 0>>]
RetRaise == [tipo |-> "raise", claves |-> {}, data |-> BodyVacio, error |-> <<>>,
             fecha |-> <<0, 0, 0>>]

\* resp.raise_for_status() raises HTTPError
RaiseForStatus(st) == 400 <= st /\ st < 600

\* `if intento < retries` of the 5xx branch: sleep and try again
ReintentaDeMas(i, retries) == i <= retries
Reintenta(i, retries) == i < retries

\* one pass of the body of `for intento in range(retries + 1)` on outcome o:
\* what the pass does ("return" | "continue") and the value returned
Iteracion(fecha, retries, i, o) ==
    IF o.tipo = "exc"
    THEN [accion |-> "return", ret |-> RetError(o.msg, fecha)]
    ELSE IF o.status = 404
    THEN [accion |-> "return", ret |-> RetError(Msg404, fecha)]
    ELSE IF RaiseForStatus(o.status)
    THEN IF o.status >= 500 /\ Reintenta(i, retries)
         THEN [accion |-> "continue", ret |-> RetNone]
         ELSE [accion |-> "return", ret |-> RetError(PrefHTTP \o StrStatus(o.status), fecha)]
    ELSE IF o.body.json = "invalido"
    THEN [accion |-> "return", ret |-> RetError(MsgJson, fecha)]
    ELSE [accion |-> "return", ret |-> RetData(o.body, fecha)]

\* the request after the loop
PostLoop(o) ==
    IF o.tipo = "exc" THEN RetNone
    ELSE IF o.status = 404 THEN RetNone
    ELSE IF RaiseForStatus(o.status)
    THEN IF o.status >= 500 THEN RetNone ELSE RetRaise
    ELSE IF o.body.json = "invalido" THEN RetNone
    ELSE RetJson(o.body)

\* where a call stands before its first request
Entrada(retries) == IF 0 < retries + 1 THEN "loop" ELSE "post_loop"

\* one request of a call standing at p ("loop" | "post_loop"), pass i:
\* the call's next position, loop variable and return value
Paso(p, fecha, retries, i, o) ==
    IF p = "loop"
    THEN LET it == Iteracion(fecha, retries, i, o)
         IN  IF it.accion = "continue"
             THEN [pc |-> IF i + 1 < retries + 1 THEN "loop" ELSE "post_loop",
                   intento |-> i + 1, ret |-> RetNone]
             ELSE [pc |-> "returned", intento |-> i, ret |-> it.ret]
    ELSE LET r == PostLoop(o)
         IN  [pc |-> IF r.tipo = "raise" THEN "raised" ELSE "returned",
              intento |-> i, ret |-> r]

ObIdle ==
    /\ ob_fecha = <<0, 0, 0>>
    /\ ob_retries = 0
    /\ ob_intento = 0
    /\ ob_pc = "idle"
    /\ ob_ret = RetNone
    /\ ob_peticiones = <<>>

\* a call obtener_boletin(fecha, retries)
InitOb ==
    /\ ob_fecha \in Fechas
    /\ ob_retries \in (-1)..MaxRetries
    /\ ob_intento = 0
    /\ ob_pc = Entrada(ob_retries)
    /\ ob_ret = RetNone
    /\ ob_peticiones = <<>>

\* requests.get(url) answers with o
ObPeticion(o) ==
    /\ ob_pc \in {"loop", "post_loop"}
    /\ LET p == Paso(ob_pc, ob_fecha, ob_retries, ob_intento, o)
       IN  /\ ob_pc' = p.pc
           /\ ob_intento' = p.intento
           /\ ob_ret' = p.ret
    /\ ob_peticiones' = Append(ob_peticiones, o)
    /\ UNCHANGED <<ob_fecha, ob_retries>>

ObRequest == \E o \in Outcomes : ObPeticion(o)


-----------------------------------------------------------------------------
(* obtener_boletines_desde_fecha *)

\* retries of the call obtener_boletin(fecha_str): the default of its signature
RetriesDefault == 2

\* a CSV file: whether it exists and its rows
NoFile == [existe |-> FALSE, filas |-> <<>>]
File(filas) == [existe |-> TRUE, filas |-> filas]

RECURSIVE DropDuplicates(_)
\* DataFrame.drop_duplicates(): the first of equal rows stays
DropDuplicates(filas) ==
    IF filas = <<>> THEN <<>>
    ELSE LET antes == DropDuplicates(SubSeq(filas, 1, Len(filas) - 1))
             ult == filas[Len(filas)]
         IN  IF \E i \in 1..Len(antes) : antes[i] = ult THEN antes ELSE Append(antes, ult)

\* "http" if "HTTP" in tipo_error or tipo_error.startswith("5") else "desconocido"
TipoErrorSiempreHttp(msg) == "http"
TipoError(msg) ==
    IF Contiene(HTTP, msg) \/ StartsWith(msg, <<"5">>) THEN "http" ELSE "desconocido"

Entrada_error(f, e, t) == [fecha |-> f, error |-> e, tipo_error |-> t]

\* `num_boletin in boletines_existentes` / `elif num_boletin in boletines_descargados`
YaConocidoSinSesion(num, existentes, descargados) == num \in existentes
YaConocidoSinBronze(num, existentes, descargados) == num \in descargados
YaConocido(num, existentes, descargados) == num \in existentes \/ num \in descargados

\* `isinstance(normas_data, dict) and "errores" in normas_data`
IndicadorIgnorado(normas) == FALSE
Indicador(normas) == normas \in {"errores", "errores_vacio"}

\* the iteration's statements after the call returned `result`:
\* the new resultados, errores_boletines, boletines_descargados, and whether
\* an exception escaped
Procesado(result, fecha_str) ==
    LET igual == [resultados |-> resultados, errores |-> errores_boletines,
                  descargados |-> boletines_descargados, raised |-> FALSE]
        fallo(e) == [igual EXCEPT !.errores =
                        Append(errores_boletines, Entrada_error(fecha_str, e, TipoError(e)))]
    IN  IF result.tipo \in {"None", "raise"}
        THEN [igual EXCEPT !.raised = TRUE]
        ELSE IF result.tipo = "json"
        THEN fallo(Desconocido)
        ELSE IF "data" \in result.claves /\ result.data.json = "obj"
                /\ result.data.boletin # "ausente"
        THEN LET data == result.data
             IN  IF data.boletin = "nodict"
                 THEN [igual EXCEPT !.raised = TRUE]
                 ELSE IF Indicador(data.normas)
                 THEN [igual EXCEPT !.errores =
                          Append(errores_boletines,
                                 Entrada_error(fecha_str,
                                               IF data.normas = "errores" THEN MsgXml
                                               ELSE MsgSinMensaje,
                                               "servidor_xml"))]
                 ELSE IF YaConocido(data.numero, boletines_existentes, boletines_descargados)
                 THEN igual
                 ELSE [igual EXCEPT
                          !.resultados = Append(resultados,
                              [fecha_publicacion |-> fecha_str, datos |-> data]),
                          !.descargados = boletines_descargados \cup {data.numero}]
        ELSE fallo(IF "error" \in result.claves THEN result.error ELSE Desconocido)

\* fecha_str of the iteration in progress
FechaStr == Strftime(fecha_inicio_dt)

\* `if fecha_str in fechas_cubiertas`
CubiertaNunca(f) == FALSE
Cubierta(f) == f \in fechas_cubiertas

\* which request of the call in progress comes next
NumPeticion ==
    IF pc = "walk" THEN 1 ELSE IF pc = "loop" THEN intento + 1 ELSE RetriesDefault + 2

\* the statements before the while loop
Entrar(inicio, existentes, cubiertas) ==
    /\ fecha_inicio' = inicio
    /\ fecha_inicio_dt' = Strptime(inicio)
    /\ resultados' = <<>>
    /\ errores_boletines' = <<>>
    /\ boletines_descargados' = {}
    /\ boletines_existentes' = existentes
    /\ fechas_cubiertas' = cubiertas
    /\ pc' = "walk"
    /\ intento' = 0
    /\ consultadas' = {}

\* an iteration on a covered date
Saltar ==
    /\ pc = "walk"
    /\ fecha_inicio_dt <= hoy
    /\ Cubierta(FechaStr)
    /\ fecha_inicio_dt' = fecha_inicio_dt + 1
    /\ UNCHANGED <<resultados, errores_boletines, boletines_descargados,
                   boletines_existentes, fechas_cubiertas, fecha_inicio, pc, intento,
                   corrida, modo, servidor, consultadas, resultados_1, log_errores,
                   log_corregidos>>
    /\ UNCHANGED <<obVars, rcVars, licVars, upVars, etVars, pdfVars, sufVars, fzVars>>

\* one request of obtener_boletin(fecha_str), answered with o; when the call
\* returns, the rest of the iteration
Peticion(o) ==
    /\ pc \in {"walk", "loop", "post_loop"}
    /\ pc = "walk" => fecha_inicio_dt <= hoy /\ ~Cubierta(FechaStr)
    /\ modo \in {"identica", "actualizada"} =>
          /\ NumPeticion <= Len(servidor[FechaStr])
          /\ o = servidor[FechaStr][NumPeticion]
    /\ LET desde == IF pc = "walk" THEN Entrada(RetriesDefault) ELSE pc
           i == IF pc = "walk" THEN 0 ELSE intento
           p == Paso(desde, FechaStr, RetriesDefault, i, o)
       IN  IF p.pc \in {"loop", "post_loop"}
           THEN /\ pc' = p.pc
                /\ intento' = p.intento
                /\ UNCHANGED <<fecha_inicio_dt, resultados, errores_boletines,
                               boletines_descargados>>
           ELSE LET r == Procesado(p.ret, FechaStr)
                IN  /\ resultados' = r.resultados
                    /\ errores_boletines' = r.errores
                    /\ boletines_descargados' = r.descargados
                    /\ intento' = 0
                    /\ IF r.raised
                       THEN pc' = "raised" /\ UNCHANGED fecha_inicio_dt
                       ELSE pc' = "walk" /\ fecha_inicio_dt' = fecha_inicio_dt + 1
    /\ consultadas' = consultadas \cup {FechaStr}
    /\ servidor' = IF modo = "primera"
                   THEN [servidor EXCEPT ![FechaStr] = Append(@, o)]
                   ELSE servidor
    /\ UNCHANGED <<boletines_existentes, fechas_cubiertas, fecha_inicio, corrida, modo,
                   resultados_1, log_errores, log_corregidos>>
    /\ UNCHANGED <<obVars, rcVars, licVars, upVars, etVars, pdfVars, sufVars, fzVars>>

\* what the API answers in the runs of Spec
Respuestas ==
    {Resp(200, BodyOk(n)) : n \in Numeros}
      \cup {Resp(200, BodyErrores(1)), Resp(200, BodySinBoletin), Resp(200, BodyNoDict),
            Resp(404, BodyVacio), Resp(403, BodyVacio), Resp(500, BodyVacio),
            Exc(MsgTimeout)}

Consultar == \E o \in Respuestas : Peticion(o)

\* the while loop ends; the statements after it
Terminar ==
    /\ pc = "walk"
    /\ ~(fecha_inicio_dt <= hoy)
    /\ log_errores' = IF errores_boletines # <<>>
                      THEN File(DropDuplicates(errores_boletines))
                      ELSE log_errores
    /\ pc' = "done"
    /\ UNCHANGED <<fecha_inicio_dt, resultados, errores_boletines, boletines_descargados,
                   boletines_existentes, fechas_cubiertas, fecha_inicio, intento, corrida,
                   modo, servidor, consultadas, resultados_1, log_corregidos>>
    /\ UNCHANGED <<obVars, rcVars, licVars, upVars, etVars, pdfVars, sufVars, fzVars>>

\* the bulletin numbers of a result list
NumerosDe(res) == {res[i].datos.numero : i \in 1..Len(res)}

\* the caller runs obtener_boletines_desde_fecha again over the same range, the
\* API answering as before: m = "identica" with the same two sets,
\* m = "actualizada" with the numbers just returned added to boletines_existentes
Repetir(m) ==
    /\ pc = "done"
    /\ modo = "primera"
    /\ corrida' = corrida + 1
    /\ modo' = m
    /\ resultados_1' = resultados
    /\ Entrar(fecha_inicio,
              IF m = "actualizada"
              THEN boletines_existentes \cup NumerosDe(resultados)
              ELSE boletines_existentes,
              fechas_cubiertas)
    /\ UNCHANGED <<servidor, log_errores, log_corregidos>>
    /\ UNCHANGED <<obVars, rcVars, licVars, upVars, etVars, pdfVars, sufVars, fzVars>>

RepetirIdentica == Repetir("identica")
RepetirActualizada == Repetir("actualizada")

WalkIdle ==
    /\ fecha_inicio_dt = 0
    /\ resultados = <<>>
    /\ errores_boletines = <<>>
    /\ boletines_descargados = {}
    /\ boletines_existentes = {}
    /\ fechas_cubiertas = {}
    /\ fecha_inicio = <<0, 0, 0>>
    /\ pc = "idle"
    /\ intento = 0
    /\ corrida = 0
    /\ modo = "idle"
    /\ servidor = <<>>
    /\ consultadas = {}
    /\ resultados_1 = <<>>
    /\ log_errores = NoFile
    /\ log_corregidos = NoFile

\* a first call obtener_boletines_desde_fecha(fecha_inicio, boletines_existentes,
\* fechas_cubiertas), standing at the head of the while loop
InitWalk ==
    /\ fecha_inicio \in Fechas
    /\ fecha_inicio_dt = Strptime(fecha_inicio)
    /\ resultados = <<>>
    /\ errores_boletines = <<>>
    /\ boletines_descargados = {}
    /\ boletines_existentes \in SUBSET Numeros
    /\ fechas_cubiertas \in SUBSET Fechas
    /\ pc = "walk"
    /\ intento = 0
    /\ corrida = 1
    /\ modo = "primera"
    /\ servidor = [f \in Fechas |-> <<>>]
    /\ consultadas = {}
    /\ resultados_1 = <<>>
    /\ log_errores = NoFile
    /\ log_corregidos = NoFile

-----------------------------------------------------------------------------
(* utils_logs.py: the reconcilers *)

\* datetime.now().strftime("%Y-%m-%d")
StrftimeISO(d) == LET f == Strftime(d) IN <<f[3], f[2], f[1]>>

\* a row of a pending log with the column fecha_correccion added
ConCorreccion(fila, fc) ==
    IF "fecha" \in DOMAIN fila
    THEN [fecha |-> fila.fecha, error |-> fila.error, tipo_error |-> fila.tipo_error,
          fecha_correccion |-> fc]
    ELSE [id_norma |-> fila.id_norma, error |-> fila.error,
          fecha_ejecucion |-> fila.fecha_ejecucion, tipo_error |-> fila.tipo_error,
          fecha_correccion |-> fc]

RECURSIVE Filtrar(_, _, _, _)
\* df[df[col].isin(buenas)] when dentro, df[~df[col].isin(buenas)] otherwise
Filtrar(filas, col, buenas, dentro) ==
    IF filas = <<>> THEN <<>>
    ELSE LET resto == Filtrar(Tail(filas), col, buenas, dentro)
         IN  IF (Head(filas)[col] \in buenas) = dentro THEN <<Head(filas)>> \o resto
             ELSE resto

\* the rows that stay pending
PendientesNinguno(filas, col, buenas) == <<>>
Pendientes(filas, col, buenas) == Filtrar(filas, col, buenas, FALSE)

\* the rows whose key is known-good
Corregidos(filas, col, buenas) == Filtrar(filas, col, buenas, TRUE)

\* the corrected log after the resolved rows were added to it
GuardarCorregidos(corr, resueltas, fc) ==
    IF resueltas = <<>> THEN corr
    ELSE LET nuevas == [i \in 1..Len(resueltas) |-> ConCorreccion(resueltas[i], fc)]
         IN  IF corr.existe THEN File(DropDuplicates(corr.filas \o nuevas))
             ELSE File(nuevas)

\* gestionar_logs_de_errores_boletines(fechas_cubiertas): the two files after it
GestionarLogsBoletines(log, corr, cubiertas) ==
    IF ~log.existe THEN [log |-> log, corr |-> corr]
    ELSE [log |-> File(Pendientes(log.filas, "fecha", cubiertas)),
          corr |-> GuardarCorregidos(corr, Corregidos(log.filas, "fecha", cubiertas),
                                     StrftimeISO(hoy))]

\* set(df_normas_actual["id_norma"].dropna().astype("Int64").unique());
\* 0 stands for a missing id
IdNormasActuales(columna) == {columna[i] : i \in 1..Len(columna)} \ {0}

\* gestionar_log_errores_normas(df_normas_actual): the two files after it
GestionarLogNormas(log, corr, columna) ==
    IF ~log.existe THEN [log |-> log, corr |-> corr]
    ELSE LET id_normas_actuales == IdNormasActuales(columna)
         IN  [log |-> File(Pendientes(log.filas, "id_norma", id_normas_actuales)),
              corr |-> GuardarCorregidos(corr,
                          Corregidos(log.filas, "id_norma", id_normas_actuales),
                          StrftimeISO(hoy))]

Msg500 == PrefHTTP \o StrStatus(500)

\* rows obtener_boletines_desde_fecha can have written
FilasBoletines ==
    {Entrada_error(f, e, TipoError(e)) : f \in Fechas, e \in {Msg404, Msg500}}

\* rows guardar_log_errores_normas can have written (0: a missing id)
FilasNormas ==
    {[id_norma |-> n, error |-> e, fecha_ejecucion |-> StrftimeISO(d),
      tipo_error |-> "timeout"] : n \in 0..MaxIdNorma, e \in {MsgTimeout}, d \in {hoy - 1, hoy}}

\* the sequences of at most MaxFilas rows of S, without a repeated row
SinRepetir(S) ==
    {q \in UNION {[1..n -> S] : n \in 0..MaxFilas} :
        \A i, j \in 1..Len(q) : q[i] = q[j] => i = j}

\* the pending logs the pipeline can have left: no date twice (a run visits a
\* date once), no (id_norma, error) twice
LogsBoletines ==
    {q \in SinRepetir(FilasBoletines) :
        \A i, j \in 1..Len(q) : q[i].fecha = q[j].fecha => i = j}
LogsNormas ==
    {q \in SinRepetir(FilasNormas) :
        \A i, j \in 1..Len(q) : q[i].id_norma = q[j].id_norma => i = j}

RcIdle ==
    /\ rc_variante = "idle"
    /\ rc_buenas = <<>>
    /\ rc_log = NoFile
    /\ rc_corregidos = NoFile
    /\ rc_previos = NoFile
    /\ rc_corr_previos = NoFile
    /\ rc_pc = "idle"

\* the files and the argument of a call of a reconciler; the corrected log,
\* when it exists, holds one row corrected the day before
InitRc ==
    /\ rc_variante \in {"boletines", "normas"}
    /\ rc_pc = "antes"
    /\ IF rc_variante = "boletines"
       THEN /\ rc_buenas \in SUBSET Fechas
            /\ rc_log \in {NoFile} \cup {File(q) : q \in LogsBoletines}
            /\ rc_corregidos \in {NoFile} \cup
                  {File(<<ConCorreccion(e, StrftimeISO(hoy - 1))>>) : e \in FilasBoletines}
       ELSE /\ rc_buenas \in [1..2 -> 0..MaxIdNorma]
            /\ rc_log \in {NoFile} \cup {File(q) : q \in LogsNormas}
            /\ rc_corregidos \in {NoFile} \cup
                  {File(<<ConCorreccion(e, StrftimeISO(hoy - 1))>>) :
                      e \in {x \in FilasNormas : x.id_norma = 1}}
    /\ rc_previos = rc_log
    /\ rc_corr_previos = rc_corregidos

Llamada(r) ==
    /\ rc_pc = "antes"
    /\ rc_log' = r.log
    /\ rc_corregidos' = r.corr
    /\ rc_pc' = "despues"
    /\ UNCHANGED <<rc_variante, rc_buenas, rc_previos, rc_corr_previos>>
    /\ UNCHANGED <<obVars, walkVars, licVars, upVars, etVars, pdfVars, sufVars, fzVars>>

LlamarGestionarBoletines ==
    /\ rc_variante = "boletines"
    /\ Llamada(GestionarLogsBoletines(rc_log, rc_corregidos, rc_buenas))

LlamarGestionarNormas ==
    /\ rc_variante = "normas"
    /\ Llamada(GestionarLogNormas(rc_log, rc_corregidos, rc_buenas))

-----------------------------------------------------------------------------
(* Runs of the pipeline: reconcile the bulletin log, fetch, store (SpecCorridas) *)

\* the dates of a result list
FechasDe(res) == {res[i].fecha_publicacion : i \in 1..Len(res)}

\* the state before a run: Bronze holds boletines_existentes and covers
\* fechas_cubiertas; an earlier run may have left a pending entry
InitCorridas ==
    /\ fecha_inicio = <<0, 0, 0>>
    /\ fecha_inicio_dt = 0
    /\ resultados = <<>>
    /\ errores_boletines = <<>>
    /\ boletines_descargados = {}
    /\ boletines_existentes = {}
    /\ fechas_cubiertas \in SUBSET Fechas
    /\ pc = "inicio"
    /\ intento = 0
    /\ corrida = 1
    /\ modo = "libre"
    /\ servidor = [f \in Fechas |-> <<>>]
    /\ consultadas = {}
    /\ resultados_1 = <<>>
    /\ log_errores \in {NoFile} \cup
          {File(<<Entrada_error(f, Msg404, TipoError(Msg404))>>) :
              f \in Fechas \ fechas_cubiertas}
    /\ log_corregidos = NoFile

\* the run calls gestionar_logs_de_errores_boletines(fechas_cubiertas)
Reconciliar ==
    /\ pc = "inicio"
    /\ LET r == GestionarLogsBoletines(log_errores, log_corregidos, fechas_cubiertas)
       IN  /\ log_errores' = r.log
           /\ log_corregidos' = r.corr
    /\ pc' = "reconciliado"
    /\ UNCHANGED <<fecha_inicio_dt, resultados, errores_boletines, boletines_descargados,
                   boletines_existentes, fechas_cubiertas, fecha_inicio, intento, corrida,
                   modo, servidor, consultadas, resultados_1>>
    /\ UNCHANGED <<obVars, rcVars, licVars, upVars, etVars, pdfVars, sufVars, fzVars>>

\* the run calls obtener_boletines_desde_fecha from some start date
Iniciar ==
    /\ pc = "reconciliado"
    /\ \E inicio \in Fechas : Entrar(inicio, boletines_existentes, fechas_cubiertas)
    /\ UNCHANGED <<corrida, modo, servidor, resultados_1, log_errores, log_corregidos>>
    /\ UNCHANGED <<obVars, rcVars, licVars, upVars, etVars, pdfVars, sufVars, fzVars>>

\* what the API answers in the runs of SpecCorridas
RespuestasCorridas ==
    {Resp(200, BodyOk(n)) : n \in Numeros} \cup {Resp(404, BodyVacio), Resp(500, BodyVacio)}

ConsultarCorridas == \E o \in RespuestasCorridas : Peticion(o)

\* the run stores what it fetched: the next run sees the new bulletins in
\* Bronze and their dates covered
Almacenar ==
    /\ pc = "done"
    /\ corrida < MaxCorridas
    /\ boletines_existentes' = boletines_existentes \cup NumerosDe(resultados)
    /\ fechas_cubiertas' = fechas_cubiertas \cup FechasDe(resultados)
    /\ corrida' = corrida + 1
    /\ pc' = "inicio"
    /\ UNCHANGED <<fecha_inicio_dt, resultados, errores_boletines, boletines_descargados,
                   fecha_inicio, intento, modo, servidor, consultadas, resultados_1,
                   log_errores, log_corregidos>>
    /\ UNCHANGED <<obVars, rcVars, licVars, upVars, etVars, pdfVars, sufVars, fzVars>>

-----------------------------------------------------------------------------
(* transformaciones_licitaciones.py: normalizar_etapa *)

\* a Python value that is a str or None
Str(s) == [nulo |-> FALSE, s |-> s]
None == [nulo |-> TRUE, s |-> <<>>]

Mayusculas == <<"A","B","C","D","E","F","G","H","I","J","K","L","M","N","O","P","Q","R","S","T","U","V","W","X","Y","Z","Ó">>
Minusculas == <<"a","b","c","d","e","f","g","h","i","j","k","l","m","n","o","p","q","r","s","t","u","v","w","x","y","z","ó">>

\* str.lower() and str.upper() on one character
LowerChar(c) ==
    IF \E i \in 1..Len(Mayusculas) : Mayusculas[i] = c
    THEN Minusculas[CHOOSE i \in 1..Len(Mayusculas) : Mayusculas[i] = c]
    ELSE c
UpperChar(c) ==
    IF \E i \in 1..Len(Minusculas) : Minusculas[i] = c
    THEN Mayusculas[CHOOSE i \in 1..Len(Minusculas) : Minusculas[i] = c]
    ELSE c

\* str.lower(), str.upper(), str.capitalize()
Lower(s) == [i \in 1..Len(s) |-> LowerChar(s[i])]
Upper(s) == [i \in 1..Len(s) |-> UpperChar(s[i])]
Capitalize(s) == [i \in 1..Len(s) |-> IF i = 1 THEN UpperChar(s[i]) ELSE LowerChar(s[i])]

\* ETAPAS_MAP, as its (key, value) items
ETAPAS_MAP ==
    <<<<<<"l","l","a","m","a","d","o">>,
        <<"l","l","a","m","a","d","o">>>>,
      <<<<"p","r","e","a","d","j","u","d","i","c","a","c","i","ó","n">>,
        <<"p","r","e","a","d","j","u","d","i","c","a","c","i","o","n">>>>,
      <<<<"p","r","e","a","d","j","u","d","i","c","a","c","i","o","n">>,
        <<"p","r","e","a","d","j","u","d","i","c","a","c","i","o","n">>>>,
      <<<<"a","d","j","u","d","i","c","a","c","i","ó","n">>,
        <<"a","d","j","u","d","i","c","a","c","i","o","n">>>>,
      <<<<"a","d","j","u","d","i","c","a","c","i","o","n">>,
        <<"a","d","j","u","d","i","c","a","c","i","o","n">>>>,
      <<<<"p","r","ó","r","r","o","g","a">>,
        <<"p","r","o","r","r","o","g","a">>>>,
      <<<<"p","r","o","r","r","o","g","a">>,
        <<"p","r","o","r","r","o","g","a">>>>,
      <<<<"c","i","r","c","u","l","a","r"," ","c","o","n"," ","c","o","n","s","u","l","t","a">>,
        <<"c","i","r","c","u","l","a","r","_","c","o","n","_","c","o","n","s","u","l","t","a">>>>,
      <<<<"c","i","r","c","u","l","a","r"," ","s","i","n"," ","c","o","n","s","u","l","t","a">>,
        <<"c","i","r","c","u","l","a","r","_","s","i","n","_","c","o","n","s","u","l","t","a">>>>,
      <<<<"c","o","r","r","e","c","c","i","ó","n">>,
        <<"c","o","r","r","e","c","c","i","o","n">>>>,
      <<<<"c","o","r","r","e","c","c","i","o","n">>,
        <<"c","o","r","r","e","c","c","i","o","n">>>>,
      <<<<"a","p","e","r","t","u","r","a">>,
        <<"a","p","e","r","t","u","r","a">>>>>>

\* ETAPAS_MAP.get(k, None)
Get(k) ==
    IF \E i \in 1..Len(ETAPAS_MAP) : ETAPAS_MAP[i][1] = k
    THEN Str(ETAPAS_MAP[CHOOSE i \in 1..Len(ETAPAS_MAP) : ETAPAS_MAP[i][1] = k][2])
    ELSE None

normalizar_etapa(etapa) ==
    IF etapa.nulo \/ etapa.s = <<>> THEN None ELSE Get(Lower(etapa.s))

\* the stage names of the map and the canonical tags
Claves == {ETAPAS_MAP[i][1] : i \in 1..Len(ETAPAS_MAP)}
Canonicas == {ETAPAS_MAP[i][2] : i \in 1..Len(ETAPAS_MAP)}

\* the known vocabulary: every stage name as written in the map, capitalised
\* (as bulletin titles write it) and in upper case
Vocabulario ==
    {Str(k) : k \in Claves} \cup {Str(Capitalize(k)) : k \in Claves}
      \cup {Str(Upper(k)) : k \in Claves}

\* the arguments tried: the vocabulary, the canonical tags, None, '' and two
\* stage names not in the map
EntradasEtapa ==
    Vocabulario \cup {Str(c) : c \in Canonicas} \cup {None, Str(<<>>), Str(<<"A","n","u","l","a","c","i","ó","n">>), Str(<<"c","i","r","c","u","l","a","r">>)}

EtIdle ==
    /\ et_entrada = None
    /\ et_salidas = <<None, None>>

InitEt ==
    /\ et_entrada \in EntradasEtapa
    /\ et_salidas = <<>>

\* normalizar_etapa is applied to the argument, then to its own result
Normalizar ==
    /\ Len(et_salidas) < 2
    /\ et_entrada \in EntradasEtapa
    /\ et_salidas' = Append(et_salidas,
                            normalizar_etapa(IF et_salidas = <<>> THEN et_entrada
                                             ELSE et_salidas[1]))
    /\ UNCHANGED et_entrada
    /\ UNCHANGED <<obVars, walkVars, rcVars, licVars, upVars, pdfVars, sufVars, fzVars>>

-----------------------------------------------------------------------------
(* storage.py: upsert_data on one Delta table with one key column *)

\* the values of the key column of df_nuevos: integers, and 0 for a value
\* pd.to_numeric(errors="coerce") turns into <NA> (text, None)
Claves_lote == 0..MaxClave

\* df_nuevos: the sequences of at most MaxLote key values
Lotes == UNION {[1..n -> Claves_lote] : n \in 0..MaxLote}

\* pd.to_numeric(...).astype("Int64") and df_nuevos[df_nuevos[key_col].notna()]
Sanear(lote) == SelectSeq(lote, LAMBDA k : k # 0)

\* number of rows of a batch with key k
Cuenta(lote, k) == Cardinality({i \in 1..Len(lote) : lote[i] = k})

\* merge ... whenNotMatchedInsertAll: the source rows that match no row of the
\* table on the key are inserted, each of them
Merge(filas, lote) ==
    [k \in 1..MaxClave |-> IF filas[k] > 0 THEN filas[k] ELSE Cuenta(lote, k)]

\* write_deltalake(table_path, df_nuevos, mode="append")
Append_delta(filas, lote) ==
    [k \in 1..MaxClave |-> filas[k] + Cuenta(lote, k)]

TablaVacia == [k \in 1..MaxClave |-> 0]

\* upsert_data(df_nuevos, table_path, key_col); merge_ok: the MERGE of lines
\* 38-44 ran without raising (it is tried only when the table exists)
upsert_data(t, df_nuevos, merge_ok) ==
    IF df_nuevos = <<>> THEN t
    ELSE LET lote == Sanear(df_nuevos)
         IN  IF t.existe /\ merge_ok
             THEN [existe |-> TRUE, filas |-> Merge(t.filas, lote)]
             ELSE [existe |-> TRUE, filas |-> Append_delta(t.filas, lote)]

UpIdle ==
    /\ tabla = [existe |-> FALSE, filas |-> <<>>]
    /\ up_llamadas = 0

\* no table at table_path yet
InitUp ==
    /\ tabla = [existe |-> FALSE, filas |-> TablaVacia]
    /\ up_llamadas = 0

Upsert ==
    /\ tabla.filas # <<>>
    /\ up_llamadas < MaxUpserts
    /\ \E df_nuevos \in Lotes, merge_ok \in BOOLEAN :
          tabla' = upsert_data(tabla, df_nuevos, merge_ok)
    /\ up_llamadas' = up_llamadas + 1
    /\ UNCHANGED <<obVars, walkVars, rcVars, licVars, etVars, pdfVars, sufVars, fzVars>>

-----------------------------------------------------------------------------
(* transformaciones_licitaciones.py: procesar_licitaciones_con_progreso *)

\* threshold and its default
Threshold == 85

\* words of a text, as characters; a text is the list of its words (what
\* str.split() yields), a company name too
PalabraAc == <<"a", "c">>
PalabraAC == <<"A", "C">>
PalabraSA == <<"S", "A">>
PalabraB == <<"B">>
Palabras == {PalabraAc, PalabraSA, PalabraB}

\* row['texto_licitaciones']: None/NaN, a value that is no str, or a text
TextoNulo == [tipo |-> "nulo", palabras |-> <<>>]
TextoNoStr == [tipo |-> "no_str", palabras |-> <<>>]
Texto(ws) == [tipo |-> "str", palabras |-> ws]

Textos ==
    {TextoNulo, TextoNoStr}
      \cup {Texto(ws) : ws \in UNION {[1..n -> Palabras] : n \in 0..MaxPalabras}}

\* the rows of df
FilasLic == {[texto |-> t, id_norma |-> n] : t \in Textos, n \in 1..MaxIdNorma}

\* the registries tried: rows (company_name_normalized, cuit_empresa); the
\* cuit "None" is a missing one
Empresa(nombre, cuit) == [nombre |-> nombre, cuit |-> cuit]
Registros ==
    {<<>>,
     <<Empresa(<<PalabraAC, PalabraSA>>, "30-1"), Empresa(<<PalabraB>>, "30-2")>>,
     <<Empresa(<<PalabraAC, PalabraSA>>, "30-1"), Empresa(<<PalabraB>>, "30-1")>>,
     <<Empresa(<<PalabraAC>>, "30-1"), Empresa(<<PalabraB>>, "None")>>}

\* empresas_normalizadas: the keys of dict(zip(nombres, cuits)), in order
RECURSIVE ClavesEnOrden(_)
ClavesEnOrden(reg) ==
    IF reg = <<>> THEN <<>>
    ELSE LET antes == ClavesEnOrden(SubSeq(reg, 1, Len(reg) - 1))
             n == reg[Len(reg)].nombre
         IN  IF \E i \in 1..Len(antes) : antes[i] = n THEN antes ELSE Append(antes, n)

\* mapa_empresas.get(nombre): the cuit of the last row with that name
CuitDe(reg, nombre) ==
    LET is == {i \in 1..Len(reg) : reg[i].nombre = nombre}
    IN  IF is = {} THEN "None" ELSE reg[CHOOSE i \in is : \A j \in is : j <= i].cuit

Tokens(ws) == {ws[i] : i \in 1..Len(ws)}

\* fuzz.token_set_ratio: 100 when the token set of one string holds the other's,
\* 0 when one has no token or they share none; a partial overlap scores
\* between, below the default threshold for names this short
TokenSetRatio(a, b) ==
    IF Tokens(a) = {} \/ Tokens(b) = {} THEN 0
    ELSE IF Tokens(a) \subseteq Tokens(b) \/ Tokens(b) \subseteq Tokens(a) THEN 100
    ELSE IF Tokens(a) \cap Tokens(b) # {} THEN 50
    ELSE 0

\* process.extractOne(segmento, nombres, scorer=fuzz.token_set_ratio): the
\* first best-scoring name and its score; None when there is no name
ExtractOne(segmento, nombres) ==
    IF nombres = <<>> THEN [ninguno |-> TRUE, match |-> <<>>, score |-> 0]
    ELSE LET mejor == CHOOSE i \in 1..Len(nombres) :
                 /\ \A j \in 1..Len(nombres) :
                       TokenSetRatio(segmento, nombres[j]) <= TokenSetRatio(segmento, nombres[i])
                 /\ \A j \in 1..(i - 1) :
                       TokenSetRatio(segmento, nombres[j]) < TokenSetRatio(segmento, nombres[i])
         IN  [ninguno |-> FALSE, match |-> nombres[mejor],
              score |-> TokenSetRatio(segmento, nombres[mejor])]

\* palabras[inicio:fin]
Slice(ws, inicio, fin) ==
    IF inicio >= Len(ws) THEN <<>>
    ELSE SubSeq(ws, inicio + 1, IF fin < Len(ws) THEN fin ELSE Len(ws))

\* limpiar_texto_licitacion(texto).upper().split()
PalabrasDe(texto) == [i \in 1..Len(texto.palabras) |-> Upper(texto.palabras[i])]

RECURSIVE Bloques(_, _, _, _, _)
\* the loop over the blocks from block `bloque` on: the companies detected, or
\* the exception of unpacking the None of extractOne
Bloques(palabras, reg, bs, bloque, total_bloques) ==
    IF bloque >= total_bloques THEN [excepcion |-> FALSE, detectadas |-> <<>>]
    ELSE LET segmento == Slice(palabras, bloque * bs, bloque * bs + bs)
             m == ExtractOne(segmento, ClavesEnOrden(reg))
         IN  IF m.ninguno THEN [excepcion |-> TRUE, detectadas |-> <<>>]
             ELSE LET resto == Bloques(palabras, reg, bs, bloque + 1, total_bloques)
                      aqui == IF m.score >= Threshold
                              THEN <<[cuit |-> CuitDe(reg, m.match), nombre |-> m.match]>>
                              ELSE <<>>
                  IN  [excepcion |-> resto.excepcion, detectadas |-> aqui \o resto.detectadas]

\* {(e["cuit"], e["nombre"]) for e in empresas_detectadas if e["cuit"]}
EmpresasUnicas(detectadas) ==
    {detectadas[i] : i \in {j \in 1..Len(detectadas) : detectadas[j].cuit # "None"}}

Desligada == [ligada |-> FALSE, valor |-> 0]

\* the handler logs f"Error en ID {id_licitacion}": with the local never
\* assigned that raises UnboundLocalError out of the handler
Handler(id) == [escapa |-> ~id.ligada, res |-> {}]

\* one pass of the for loop on `row`: the local id_licitacion after it,
\* whether an exception escaped the pass, and the list appended to resultados
Pasada(row, columnas, reg, bs, id) ==
    IF "texto_licitaciones" \notin columnas
    THEN [id |-> id] @@ Handler(id)
    ELSE IF "id_norma" \notin columnas
    THEN [id |-> id] @@ Handler(id)
    ELSE LET id2 == [ligada |-> TRUE, valor |-> row.id_norma]
         IN  IF row.texto.tipo = "nulo"
             THEN [id |-> id2, escapa |-> FALSE, res |-> {}]
             ELSE IF row.texto.tipo = "no_str"
             THEN [id |-> id2] @@ Handler(id2)
             ELSE LET palabras == PalabrasDe(row.texto)
                      b == Bloques(palabras, reg, bs, 0, (Len(palabras) \div bs) + 1)
                  IN  IF b.excepcion THEN [id |-> id2] @@ Handler(id2)
                      ELSE [id |-> id2, escapa |-> FALSE,
                            res |-> EmpresasUnicas(b.detectadas)]

LicIdle ==
    /\ lic_columnas = {}
    /\ lic_total = 0
    /\ lic_filas = <<>>
    /\ df_empresas = <<>>
    /\ bloque_size = 0
    /\ lic_resultados = <<>>
    /\ id_licitacion = Desligada
    /\ lic_pc = "idle"

\* a call procesar_licitaciones_con_progreso(df, df_empresas, bloque_size=...)
InitLic ==
    /\ lic_columnas \in SUBSET {"texto_licitaciones", "id_norma"}
    /\ lic_total \in 0..MaxRegistros
    /\ lic_filas = <<>>
    /\ df_empresas \in Registros
    /\ bloque_size \in 1..MaxBloque
    /\ lic_resultados = <<>>
    /\ id_licitacion = Desligada
    /\ lic_pc = "loop"

\* the pass of the for loop on the next row of df
Iterar ==
    /\ lic_pc = "loop"
    /\ Len(lic_filas) < lic_total
    /\ \E row \in FilasLic :
          LET r == Pasada(row, lic_columnas, df_empresas, bloque_size, id_licitacion)
          IN  /\ lic_filas' = Append(lic_filas, row)
              /\ id_licitacion' = r.id
              /\ IF r.escapa
                 THEN lic_pc' = "raised" /\ UNCHANGED lic_resultados
                 ELSE lic_pc' = "loop" /\ lic_resultados' = Append(lic_resultados, r.res)
    /\ UNCHANGED <<lic_columnas, lic_total, df_empresas, bloque_size>>
    /\ UNCHANGED <<obVars, walkVars, rcVars, upVars, etVars, pdfVars, sufVars, fzVars>>

\* df.iterrows() is exhausted: return resultados
Retornar ==
    /\ lic_pc = "loop"
    /\ Len(lic_filas) = lic_total
    /\ lic_pc' = "returned"
    /\ UNCHANGED <<lic_columnas, lic_total, lic_filas, df_empresas, bloque_size,
                   lic_resultados, id_licitacion>>
    /\ UNCHANGED <<obVars, walkVars, rcVars, upVars, etVars, pdfVars, sufVars, fzVars>>

-----------------------------------------------------------------------------
(* procesar_licitaciones, descargar_pdf, extraer_texto_pdf *)

MaxDocs == 2             \* 'Licitaciones' rows of a pass
MaxPasadas == 2          \* passes made

\* what the download of descargar_pdf can do: store a PDF pdfplumber reads,
\* store bytes it cannot read, time out, or fail otherwise
Descargas == {"legible", "ilegible", "timeout", "error"}

IdsNorma == 1..MaxIdNorma

\* descargar_pdf(id_norma, url_pdf): the directory afterwards; the path
\* PDF_DIR / f"{id_norma}.pdf" is returned in every case
descargar_pdf(dir, id_norma, d) ==
    IF dir[id_norma] # "ausente" THEN dir
    ELSE IF d \in {"legible", "ilegible"} THEN [dir EXCEPT ![id_norma] = d]
    ELSE dir

\* extraer_texto_pdf(path_pdf): the text of the pages, "" when pdfplumber raises
extraer_texto_pdf(dir, id_norma) ==
    IF dir[id_norma] = "legible" THEN <<"t", id_norma>> ELSE <<>>

\* the body of the for loop of procesar_licitaciones on one row: the
\* directory afterwards, the text appended to textos_pdf and the entries
\* appended to errores_pdf_normas
FilaPdf(dir, id_norma, d) ==
    LET dir2 == descargar_pdf(dir, id_norma, d)
    IN  IF dir2[id_norma] = "ausente"
        THEN [dir |-> dir2, texto |-> <<>>,
              entradas |-> <<[id_norma |-> id_norma, error |-> "No se encontro el archivo"]>>]
        ELSE [dir |-> dir2, texto |-> extraer_texto_pdf(dir2, id_norma), entradas |-> <<>>]

\* whether the download or the text extraction of the row failed
FalloPdf(dir, id_norma, d) ==
    \/ dir[id_norma] = "ausente" /\ d \in {"timeout", "error"}
    \/ descargar_pdf(dir, id_norma, d)[id_norma] = "ilegible"

PdfIdle ==
    /\ errores_pdf_normas = <<>>
    /\ PDF_DIR = <<>>
    /\ textos_pdf = <<>>
    /\ pdf_total = 0
    /\ pdf_pasadas = 0
    /\ pdf_fallos = <<>>
    /\ pdf_pc = "idle"

\* the class as loaded, data/pdfs empty or holding files of earlier sessions
InitPdf ==
    /\ errores_pdf_normas = <<>>
    /\ PDF_DIR \in [IdsNorma -> {"ausente", "legible", "ilegible"}]
    /\ textos_pdf = <<>>
    /\ pdf_total = 0
    /\ pdf_pasadas = 0
    /\ pdf_fallos = <<>>
    /\ pdf_pc = "inicio"

\* a call procesar_licitaciones(df_normas): the statements before the loop
IniciarPasada ==
    /\ pdf_pc \in {"inicio", "returned"}
    /\ pdf_pasadas < MaxPasadas
    /\ errores_pdf_normas' = <<>>
    /\ textos_pdf' = <<>>
    /\ pdf_total' \in 0..MaxDocs
    /\ pdf_pasadas' = pdf_pasadas + 1
    /\ pdf_fallos' = <<>>
    /\ pdf_pc' = "loop"
    /\ UNCHANGED PDF_DIR
    /\ UNCHANGED <<obVars, walkVars, rcVars, licVars, upVars, etVars, sufVars, fzVars>>

\* the pass of the for loop on the next row
ProcesarPdf ==
    /\ pdf_pc = "loop"
    /\ Len(textos_pdf) < pdf_total
    /\ \E id_norma \in IdsNorma, d \in Descargas :
          LET r == FilaPdf(PDF_DIR, id_norma, d)
          IN  /\ PDF_DIR' = r.dir
              /\ textos_pdf' = Append(textos_pdf, r.texto)
              /\ errores_pdf_normas' = errores_pdf_normas \o r.entradas
              /\ pdf_fallos' = IF FalloPdf(PDF_DIR, id_norma, d)
                               THEN Append(pdf_fallos, id_norma) ELSE pdf_fallos
    /\ UNCHANGED <<pdf_total, pdf_pasadas, pdf_pc>>
    /\ UNCHANGED <<obVars, walkVars, rcVars, licVars, upVars, etVars, sufVars, fzVars>>

\* the rows are exhausted: the pass returns the table with textos_pdf
RetornarPdf ==
    /\ pdf_pc = "loop"
    /\ Len(textos_pdf) = pdf_total
    /\ pdf_pc' = "returned"
    /\ UNCHANGED <<errores_pdf_normas, PDF_DIR, textos_pdf, pdf_total, pdf_pasadas,
                   pdf_fallos>>
    /\ UNCHANGED <<obVars, walkVars, rcVars, licVars, upVars, etVars, sufVars, fzVars>>

-----------------------------------------------------------------------------
(* normalizar_sufijos *)

MaxLargo == 4            \* characters of a company name

\* \s, [.\s] and \w on one character
EsEspacio(c) == c = " "
EsSeparador(c) == c = "." \/ EsEspacio(c)
EsPalabra(c) ==
    \E i \in 1..Len(Mayusculas) : Mayusculas[i] = c \/ Minusculas[i] = c

\* \b between s[i] and s[i+1] (i = 0: before the string, i = Len(s): after it)
Frontera(s, i) ==
    (i >= 1 /\ EsPalabra(s[i])) # (i < Len(s) /\ EsPalabra(s[i + 1]))

\* \s* and [.\s]* from index i: the index of the first character not consumed
TrasEspacios(s, i) ==
    CHOOSE j \in i..(Len(s) + 1) :
        /\ \A k \in i..(j - 1) : EsEspacio(s[k])
        /\ j = Len(s) + 1 \/ ~EsEspacio(s[j])
TrasSeparadores(s, i) ==
    CHOOSE j \in i..(Len(s) + 1) :
        /\ \A k \in i..(j - 1) : EsSeparador(s[k])
        /\ j = Len(s) + 1 \/ ~EsSeparador(s[j])

RECURSIVE PuntosDesde(_, _)
\* re.sub(r'\s*\.\s*', '.', s) from index i on
PuntosDesde(s, i) ==
    IF i > Len(s) THEN <<>>
    ELSE LET j == TrasEspacios(s, i)
         IN  IF j <= Len(s) /\ s[j] = "."
             THEN <<".">> \o PuntosDesde(s, TrasEspacios(s, j + 1))
             ELSE <<s[i]>> \o PuntosDesde(s, i + 1)

RECURSIVE TrasLetras(_, _, _, _)
\* L1[.\s]*L2[.\s]*...Ln tried from index i, under re.IGNORECASE: the index
\* after Ln, 0 when it does not match
TrasLetras(s, i, letras, k) ==
    IF i > Len(s) \/ UpperChar(s[i]) # letras[k] THEN 0
    ELSE IF k = Len(letras) THEN i + 1
    ELSE TrasLetras(s, TrasSeparadores(s, i + 1), letras, k + 1)

\* \bL1[.\s]*...Ln[.\s]*\b tried at index i: the index after the match, 0 when
\* there is none; the last [.\s]* gives back what it took until \b holds
Coincide(s, i, letras) ==
    IF ~Frontera(s, i - 1) THEN 0
    ELSE LET p == TrasLetras(s, i, letras, 1)
             q == IF p = 0 THEN 0 ELSE TrasSeparadores(s, p)
         IN  IF p = 0 THEN 0
             ELSE IF Frontera(s, q - 1) THEN q
             ELSE IF Frontera(s, p - 1) THEN p
             ELSE 0

RECURSIVE Sub(_, _, _, _)
\* re.sub(patron, reemplazo, s, flags=re.IGNORECASE) from index i on
Sub(s, i, letras, reemplazo) ==
    IF i > Len(s) THEN <<>>
    ELSE LET e == Coincide(s, i, letras)
         IN  IF e # 0 THEN reemplazo \o Sub(s, e, letras, reemplazo)
             ELSE <<s[i]>> \o Sub(s, i + 1, letras, reemplazo)

\* the dict sufijos, in its order: the letters of each pattern and the replacement
sufijos ==
    << <<<<"S","A">>, <<"S",".","A",".">>>>,
       <<<<"S","R","L">>, <<"S",".","R",".","L",".">>>>,
       <<<<"S","A","S">>, <<"S",".","A",".","S",".">>>>,
       <<<<"C","I","A">>, <<"C",".","I",".","A",".">>>>,
       <<<<"S","H">>, <<"S",".","H",".">>>>,
       <<<<"S","E">>, <<"S",".","E",".">>>>,
       <<<<"S","C">>, <<"S",".","C",".">>>>,
       <<<<"S","E","N","C">>, <<"S",".","E",".","N",".","C",".">>>> >>

RECURSIVE Reemplazar(_, _)
\* the for loop over sufijos.items() from entry k on
Reemplazar(s, k) ==
    IF k > Len(sufijos) THEN s
    ELSE Reemplazar(Sub(s, 1, sufijos[k][1], sufijos[k][2]), k + 1)

\* re.sub(r'\.+$', '.', s)
PuntosFinales(s) ==
    LET n == CHOOSE m \in 0..Len(s) :
                 /\ \A k \in (Len(s) - m + 1)..Len(s) : s[k] = "."
                 /\ m = Len(s) \/ s[Len(s) - m] # "."
    IN  IF n = 0 THEN s ELSE SubSeq(s, 1, Len(s) - n) \o <<".">>

\* str.strip()
Strip(s) ==
    IF \A k \in 1..Len(s) : EsEspacio(s[k]) THEN <<>>
    ELSE LET a == CHOOSE i \in 1..Len(s) :
                      ~EsEspacio(s[i]) /\ \A k \in 1..(i - 1) : EsEspacio(s[k])
             b == CHOOSE i \in 1..Len(s) :
                      ~EsEspacio(s[i]) /\ \A k \in (i + 1)..Len(s) : EsEspacio(s[k])
         IN  SubSeq(s, a, b)

normalizar_sufijos(nombre) ==
    IF nombre.nulo THEN nombre
    ELSE Str(Strip(PuntosFinales(Reemplazar(PuntosDesde(Upper(nombre.s), 1), 1))))

\* the characters names are written with here
Alfabeto == {"s", "A", "E", " ", ".", ","}

\* the arguments tried: None and every name of up to MaxLargo characters
Nombres ==
    {None} \cup {Str(s) : s \in UNION {[1..n -> Alfabeto] : n \in 0..MaxLargo}}

SufIdle ==
    /\ suf_entrada = None
    /\ suf_salidas = <<None, None>>

InitSuf ==
    /\ suf_entrada \in Nombres
    /\ suf_salidas = <<>>

\* normalizar_sufijos is applied to the argument, then to its own result
NormalizarSufijos ==
    /\ Len(suf_salidas) < 2
    /\ suf_entrada \in Nombres
    /\ suf_salidas' = Append(suf_salidas,
                             normalizar_sufijos(IF suf_salidas = <<>> THEN suf_entrada
                                                ELSE suf_salidas[1]))
    /\ UNCHANGED suf_entrada
    /\ UNCHANGED <<obVars, walkVars, rcVars, licVars, upVars, etVars, pdfVars, fzVars>>

-----------------------------------------------------------------------------
(* buscar_empresas_fuzzy *)

MaxTexto == 3            \* words of the text searched

\* `if len(texto_limpio) < 10`
LargoMinimo == 10

PalabraAcme == <<"a", "c", "m", "e">>
PalabraACME == <<"A", "C", "M", "E">>
PalabraBETA == <<"B", "E", "T", "A">>
PalabraOBRAS == <<"O", "B", "R", "A", "S">>

\* the texts tried, as the words limpiar_texto_licitacion leaves
TextosFuzzy ==
    UNION {[1..n -> {PalabraAcme, PalabraBETA, PalabraOBRAS}] : n \in 0..MaxTexto}

\* the lists empresas_normalizadas tried
ListasFuzzy ==
    {<<>>,
     << <<PalabraACME>> >>,
     << <<PalabraACME>>, <<PalabraACME, PalabraBETA>> >>,
     << <<PalabraACME, PalabraBETA>>, <<PalabraACME>> >>,
     << <<PalabraOBRAS, PalabraBETA>>, <<PalabraBETA, PalabraOBRAS>> >>}

\* the thresholds tried
Umbrales == {0, Threshold, 100}

RECURSIVE LargoTexto(_)
\* len(' '.join(palabras))
LargoTexto(palabras) ==
    IF palabras = <<>> THEN 0
    ELSE IF Len(palabras) = 1 THEN Len(palabras[1])
    ELSE LargoTexto(SubSeq(palabras, 1, Len(palabras) - 1)) + 1
           + Len(palabras[Len(palabras)])

\* the pairs (window_size, i) of the two for loops
Ventanas(palabras) ==
    {v \in (3..5) \X (0..Len(palabras)) : v[2] < Len(palabras) - v[1] + 1}

\* buscar_empresas_fuzzy(texto, empresas_normalizadas, threshold): the names
\* returned, or the exception of unpacking the None of extractOne
buscar_empresas_fuzzy(texto, empresas_normalizadas, threshold) ==
    LET palabras == [i \in 1..Len(texto) |-> Upper(texto[i])]
        m(v) == ExtractOne(Slice(palabras, v[2], v[2] + v[1]), empresas_normalizadas)
    IN  IF LargoTexto(palabras) < LargoMinimo
        THEN [excepcion |-> FALSE, lista |-> {}]
        ELSE IF \E v \in Ventanas(palabras) : m(v).ninguno
        THEN [excepcion |-> TRUE, lista |-> {}]
        ELSE [excepcion |-> FALSE,
              lista |-> {m(v).match : v \in {w \in Ventanas(palabras) :
                                                m(w).score >= threshold}}]

FzIdle ==
    /\ fz_texto = <<>>
    /\ fz_empresas = <<>>
    /\ fz_threshold = 0
    /\ fz_ret = {}
    /\ fz_pc = "idle"

\* a call buscar_empresas_fuzzy(texto, empresas_normalizadas, threshold)
InitFz ==
    /\ fz_texto \in TextosFuzzy
    /\ fz_empresas \in ListasFuzzy
    /\ fz_threshold \in Umbrales
    /\ fz_ret = {}
    /\ fz_pc = "call"

\* the call runs to its return or to the exception that leaves it
Buscar ==
    /\ fz_pc = "call"
    /\ LET r == buscar_empresas_fuzzy(fz_texto, fz_empresas, fz_threshold)
       IN  /\ fz_ret' = r.lista
           /\ fz_pc' = IF r.excepcion THEN "raised" ELSE "returned"
    /\ UNCHANGED <<fz_texto, fz_empresas, fz_threshold>>
    /\ UNCHANGED <<obVars, walkVars, rcVars, licVars, upVars, etVars, pdfVars, sufVars>>

-----------------------------------------------------------------------------
(* Specifications *)

Init == InitWalk /\ ObIdle /\ RcIdle /\ LicIdle /\ UpIdle /\ EtIdle
        /\ PdfIdle /\ SufIdle /\ FzIdle
Next == Saltar \/ Consultar \/ Terminar \/ RepetirIdentica \/ RepetirActualizada
Spec == Init /\ [][Next]_vars

InitBoletin == InitOb /\ WalkIdle /\ RcIdle /\ LicIdle /\ UpIdle /\ EtIdle
        /\ PdfIdle /\ SufIdle /\ FzIdle
NextBoletin ==
    ObRequest /\ UNCHANGED <<walkVars, rcVars, licVars, upVars, etVars, pdfVars, sufVars,
                             fzVars>>
SpecBoletin == InitBoletin /\ [][NextBoletin]_vars

InitRuns == InitCorridas /\ ObIdle /\ RcIdle /\ LicIdle /\ UpIdle /\ EtIdle
        /\ PdfIdle /\ SufIdle /\ FzIdle
NextCorridas ==
    Reconciliar \/ Iniciar \/ Saltar \/ ConsultarCorridas \/ Terminar \/ Almacenar
SpecCorridas == InitRuns /\ [][NextCorridas]_vars

InitEtapa == InitEt /\ ObIdle /\ WalkIdle /\ RcIdle /\ LicIdle /\ UpIdle
        /\ PdfIdle /\ SufIdle /\ FzIdle
SpecEtapa == InitEtapa /\ [][Normalizar]_vars

InitUpsert == InitUp /\ ObIdle /\ WalkIdle /\ RcIdle /\ LicIdle /\ EtIdle
        /\ PdfIdle /\ SufIdle /\ FzIdle
SpecUpsert == InitUpsert /\ [][Upsert]_vars

InitLicitaciones == InitLic /\ ObIdle /\ WalkIdle /\ RcIdle /\ UpIdle /\ EtIdle
        /\ PdfIdle /\ SufIdle /\ FzIdle
NextLicitaciones == Iterar \/ Retornar
SpecLicitaciones == InitLicitaciones /\ [][NextLicitaciones]_vars

InitLogs == InitRc /\ ObIdle /\ WalkIdle /\ LicIdle /\ UpIdle /\ EtIdle
        /\ PdfIdle /\ SufIdle /\ FzIdle
NextLogs == LlamarGestionarBoletines \/ LlamarGestionarNormas
SpecLogs == InitLogs /\ [][NextLogs]_vars

InitPasadas == InitPdf /\ ObIdle /\ WalkIdle /\ RcIdle /\ LicIdle /\ UpIdle /\ EtIdle
        /\ SufIdle /\ FzIdle
NextPdf == IniciarPasada \/ ProcesarPdf \/ RetornarPdf
SpecPdf == InitPasadas /\ [][NextPdf]_vars

InitSufijos == InitSuf /\ ObIdle /\ WalkIdle /\ RcIdle /\ LicIdle /\ UpIdle /\ EtIdle
        /\ PdfIdle /\ FzIdle
SpecSufijos == InitSufijos /\ [][NormalizarSufijos]_vars

InitFuzzy == InitFz /\ ObIdle /\ WalkIdle /\ RcIdle /\ LicIdle /\ UpIdle /\ EtIdle
        /\ PdfIdle /\ SufIdle
SpecFuzzy == InitFuzzy /\ [][Buscar]_vars


-----------------------------------------------------------------------------
(* Claims on obtener_boletines_desde_fecha (Spec) *)

\* C1 as stated: a second run over the same range with the identical
\* boletines_existentes and fechas_cubiertas, the API answering as in the
\* first run, returns an empty list.
C1_RepeticionIdenticaVacia ==
    (modo = "identica" /\ pc = "done") => resultados = <<>>

\* C1 amended: the second run returns an empty list when boletines_existentes
\* has been extended with the numbers the first run returned; with the
\* identical sets it returns the list of the first run again.
C1_RepeticionSinNuevos ==
    /\ (modo = "actualizada" /\ pc = "done") => resultados = <<>>
    /\ (modo = "identica" /\ pc = "done") => resultados = resultados_1

\* a rerun with the updated set ended after a first run that returned records
C1_Witness ==
    /\ modo = "actualizada"
    /\ pc = "done"
    /\ resultados_1 # <<>>
    /\ resultados = <<>>

\* C2, state part: no record of resultados has a number of
\* boletines_existentes, and no two records have the same number.
C2_SinRepetidos ==
    /\ \A i \in 1..Len(resultados) :
          resultados[i].datos.numero \notin boletines_existentes
    /\ \A i, j \in 1..Len(resultados) :
          resultados[i].datos.numero = resultados[j].datos.numero => i = j

\* C2, step part: a step that lengthens resultados appends one record whose
\* number was in neither set and puts that number into the seen-this-run set.
C2_Paso ==
    Len(resultados') > Len(resultados) =>
        /\ Len(resultados') = Len(resultados) + 1
        /\ SubSeq(resultados', 1, Len(resultados)) = resultados
        /\ LET num == resultados'[Len(resultados')].datos.numero
           IN  /\ num \notin boletines_existentes
               /\ num \notin boletines_descargados
               /\ boletines_descargados' = boletines_descargados \cup {num}

\* C2: at every point of a run the result list holds no known and no repeated
\* bulletin number, and records are appended only as new numbers, marked seen
\* in the same step.
C2_Dedup == [](C2_SinRepetidos) /\ [][C2_Paso]_vars

\* a first run ended in which every date answered bulletin 1, unknown before:
\* it was kept once and discarded once
C2_Witness ==
    /\ modo = "primera"
    /\ pc = "done"
    /\ 1 \notin boletines_existentes
    /\ \A f \in Fechas : servidor[f] = <<Resp(200, BodyOk(1))>>
    /\ Len(resultados) = 1

\* C3, step part: at the head of the loop on a covered date, the step advances
\* the cursor by one day and leaves results, failures, the seen set and the
\* set of consulted dates alone.
C3_Paso ==
    (pc = "walk" /\ fecha_inicio_dt <= hoy
       /\ Strftime(fecha_inicio_dt) \in fechas_cubiertas) =>
        /\ fecha_inicio_dt' = fecha_inicio_dt + 1
        /\ UNCHANGED <<resultados, errores_boletines, boletines_descargados, consultadas>>

\* C3: obtener_boletin is never invoked for a date of fechas_cubiertas; on
\* such a date the walk only advances the cursor.
C3_NoConsultaCubiertas ==
    [](consultadas \cap fechas_cubiertas = {}) /\ [][C3_Paso]_vars

\* a run ended that started on a covered date and consulted another one
C3_Witness ==
    /\ pc = "done"
    /\ fecha_inicio \in fechas_cubiertas
    /\ consultadas # {}

\* the dates whose iteration the cursor has left behind
Pasadas ==
    {f \in Fechas : Strptime(fecha_inicio) <= Strptime(f) /\ Strptime(f) < fecha_inicio_dt}

\* obtener_boletin was invoked for f and has returned
Completada(f) ==
    f \in consultadas /\ ~(f = Strftime(fecha_inicio_dt) /\ pc \in {"loop", "post_loop"})

\* the answer to the last request made for f
Ultima(f) == servidor[f][Len(servidor[f])]

\* positions of the failure entries / of the records of date f
EntradasDe(f) == {i \in 1..Len(errores_boletines) : errores_boletines[i].fecha = f}
RegistrosDe(f) == {i \in 1..Len(resultados) : resultados[i].fecha_publicacion = f}

\* C13 as stated, the part a single state shows: the walk never ends by an
\* exception, the cursor stays between the start date and the day after
\* today, and when the walk has stopped the cursor is the day after today and
\* every date from the start date to today was either covered or consulted.
C13_RecorreHastaHoy ==
    /\ pc # "raised"
    /\ fecha_inicio_dt \in Strptime(fecha_inicio)..(hoy + 1)
    /\ pc = "done" =>
          /\ fecha_inicio_dt = hoy + 1
          /\ consultadas =
                {f \in Fechas : Strptime(fecha_inicio) <= Strptime(f)} \ fechas_cubiertas

\* a 200 answer with a 'boletin' object whose 'normas' has the key 'errores'
EsErrorServidor(o) ==
    /\ o.tipo = "resp"
    /\ o.status = 200
    /\ o.body.json = "obj"
    /\ o.body.boletin = "dict"
    /\ o.body.normas \in {"errores", "errores_vacio"}

\* C14: in a first run, once the call for a date has returned a successful
\* response whose notices carry 'errores', the cursor has moved past the date,
\* errores_boletines has exactly one entry for it, tagged "servidor_xml",
\* resultados has no record of the date, and the seen-this-run set holds only
\* the numbers of the records kept.
C14_ErrorServidor ==
    modo = "primera" =>
        \A f \in Fechas :
            (Completada(f) /\ EsErrorServidor(Ultima(f))) =>
                /\ f \in Pasadas
                /\ Cardinality(EntradasDe(f)) = 1
                /\ \A i \in EntradasDe(f) :
                      errores_boletines[i].tipo_error = "servidor_xml"
                /\ RegistrosDe(f) = {}
                /\ boletines_descargados = NumerosDe(resultados)

\* a first run ended in which the start date answered 'errores' for bulletin
\* 1, a number in neither set
C14_Witness ==
    /\ modo = "primera"
    /\ pc = "done"
    /\ servidor[fecha_inicio] = <<Resp(200, BodyErrores(1))>>
    /\ 1 \notin boletines_existentes
    /\ 1 \notin boletines_descargados
    /\ Len(errores_boletines) >= 1

\* an answer that gives no usable bulletin: an exception, a 4xx or 5xx
\* status, a body that is not JSON, or a body without a 'boletin' entry
SinBoletin(o) ==
    \/ o.tipo = "exc"
    \/ o.status >= 400
    \/ o.body.json \in {"vacio", "invalido"}
    \/ o.body.boletin = "ausente"

\* C15: in a first run, once the call for a non-covered date has returned
\* without a usable bulletin, the cursor has moved past the date,
\* errores_boletines has exactly one entry for it, tagged "http" when its
\* message contains "HTTP" or starts with "5" and "desconocido" otherwise
\* (so "http" for 403 and 500, "desconocido" for 404, an exception or a
\* missing 'boletin'), and resultados has no record of the date.
C15_FalloDescarga ==
    modo = "primera" =>
        \A f \in Fechas :
            (Completada(f) /\ SinBoletin(Ultima(f))) =>
                /\ f \in Pasadas
                /\ f \notin fechas_cubiertas
                /\ Cardinality(EntradasDe(f)) = 1
                /\ \A i \in EntradasDe(f) :
                      LET e == errores_boletines[i]
                          o == Ultima(f)
                      IN  /\ e.tipo_error =
                                IF Contiene(<<"H","T","T","P">>, e.error)
                                     \/ (e.error # <<>> /\ e.error[1] = "5")
                                THEN "http" ELSE "desconocido"
                          /\ e.tipo_error =
                                IF o.tipo = "resp" /\ o.status >= 400 /\ o.status # 404
                                THEN "http" ELSE "desconocido"
                /\ RegistrosDe(f) = {}

\* a first run ended from the earliest date: that date answered 404, today
\* answered 500 on every attempt, and both have their entry
C15_Witness ==
    /\ modo = "primera"
    /\ pc = "done"
    /\ servidor[Strftime(PrimerDia)] = <<Resp(404, BodyVacio)>>
    /\ Len(servidor[Strftime(hoy)]) = RetriesDefault + 1
    /\ Ultima(Strftime(hoy)) = Resp(500, BodyVacio)
    /\ Len(errores_boletines) = NumDias

-----------------------------------------------------------------------------
(* Claims on obtener_boletin (SpecBoletin) *)

Es5xx(o) == o.tipo = "resp" /\ o.status >= 500

\* C4: with retries = 2 at most 3 requests are issued, every request but the
\* last ended in a 5xx status, nothing follows a 404, another 4xx, an
\* exception or a success, and three 5xx in a row return 'HTTP <status>'.
C4_Reintentos ==
    ob_retries = RetriesDefault =>
        /\ Len(ob_peticiones) <= 3
        /\ \A k \in 1..Len(ob_peticiones) :
              /\ k < Len(ob_peticiones) => Es5xx(ob_peticiones[k])
              /\ ~Es5xx(ob_peticiones[k]) => ob_pc = "returned"
        /\ (Len(ob_peticiones) = 3 /\ Es5xx(ob_peticiones[3])) =>
              /\ ob_pc = "returned"
              /\ ob_ret = RetError(PrefHTTP \o StrStatus(ob_peticiones[3].status), ob_fecha)

\* a call with the default retries that got 500, 503, 500
C4_Witness ==
    /\ ob_retries = RetriesDefault
    /\ ob_peticiones = <<Resp(500, BodyVacio), Resp(503, BodyVacio), Resp(500, BodyVacio)>>
    /\ ob_pc = "returned"

\* C5: for retries >= 0 the call never stands in the code after the loop and
\* never raises; what it returns is a dict with the requested date and
\* exactly one of 'data' and 'error'.
C5_SiempreResultado ==
    ob_retries >= 0 =>
        /\ ob_pc \notin {"post_loop", "raised"}
        /\ ob_pc = "returned" =>
              /\ ob_ret.tipo = "dict"
              /\ ob_ret.fecha = ob_fecha
              /\ \/ ob_ret.claves = {"data", "fecha"}
                 \/ ob_ret.claves = {"error", "fecha"}

\* a call with retries = 0 that returned after one 5xx response (the last
\* pass of the loop), and so did not fall out of the loop
C5_Witness ==
    /\ ob_retries = 0
    /\ ob_pc = "returned"
    /\ Len(ob_peticiones) = 1
    /\ Es5xx(ob_peticiones[1])
    /\ "error" \in ob_ret.claves


-----------------------------------------------------------------------------
(* Claims on the reconcilers (SpecLogs) *)

\* the key column of the variant and the known-good keys of the call
RcCol == IF rc_variante = "boletines" THEN "fecha" ELSE "id_norma"
RcBuenas ==
    IF rc_variante = "boletines" THEN rc_buenas
    ELSE {rc_buenas[i] : i \in 1..Len(rc_buenas)} \ {0}

Filas(file) == {file.filas[i] : i \in 1..Len(file.filas)}

\* the rows the call wrote into the corrected log
RcMovidas == Filas(rc_corregidos) \ Filas(rc_corr_previos)

\* C6: after a call of either reconciler every row of the pending log as it
\* was before is either kept pending (its key is not known-good) or written to
\* the corrected log with today's correction date (its key is known-good),
\* never both and never neither; the call writes nothing else to the corrected
\* log, removes nothing from it, and rows moved plus rows kept are the rows
\* before.
C6_Particion ==
    rc_pc = "despues" =>
        /\ \A e \in Filas(rc_previos) :
              LET buena == e[RcCol] \in RcBuenas
                  movida == ConCorreccion(e, StrftimeISO(hoy)) \in Filas(rc_corregidos)
                  pendiente == e \in Filas(rc_log)
              IN  /\ movida <=> buena
                  /\ pendiente <=> ~buena
        /\ Filas(rc_log) \subseteq Filas(rc_previos)
        /\ Filas(rc_corr_previos) \subseteq Filas(rc_corregidos)
        /\ RcMovidas = {ConCorreccion(e, StrftimeISO(hoy)) :
                           e \in {x \in Filas(rc_previos) : x[RcCol] \in RcBuenas}}
        /\ Cardinality(RcMovidas) + Cardinality(Filas(rc_log))
              = Cardinality(Filas(rc_previos))

\* a call that moved one row and kept another, with an older corrected log
C6_Witness ==
    /\ rc_pc = "despues"
    /\ Len(rc_previos.filas) = 2
    /\ Len(rc_log.filas) = 1
    /\ rc_corr_previos.existe
    /\ Len(rc_corregidos.filas) = 2


-----------------------------------------------------------------------------
(* Claims on the runs (SpecCorridas) *)

FechasEnLog(file) == {file.filas[i].fecha : i \in 1..Len(file.filas)}

\* a step keeps in the pending log every date that has an entry there and is
\* neither covered nor fetched by this run
C7_Paso ==
    \A f \in FechasEnLog(log_errores) :
        (f \notin fechas_cubiertas' /\ f \notin FechasDe(resultados'))
            => f \in FechasEnLog(log_errores')

\* C7: over any sequence of runs a date with a pending entry keeps an entry in
\* logs/log_errores_boletines.csv until the date is covered; no run removes
\* it before, whether or not the run's walk writes the log.
C7_PendientePermanece == [][C7_Paso]_vars


-----------------------------------------------------------------------------
(* Claims on normalizar_etapa (SpecEtapa) *)

\* C10: normalizar_etapa maps every stage name of its vocabulary to a
\* canonical tag, maps None, '' and unknown names to None, and applied to its
\* own result on the vocabulary it returns that result again.
C10_PuntoFijo ==
    /\ (Len(et_salidas) >= 1 /\ et_entrada \in Vocabulario) =>
          ~et_salidas[1].nulo /\ et_salidas[1].s \in Canonicas
    /\ (Len(et_salidas) >= 1 /\ et_entrada \in {None, Str(<<>>)}) =>
          et_salidas[1] = None
    /\ (Len(et_salidas) >= 1 /\ ~et_entrada.nulo /\ et_entrada.s \in Canonicas) =>
          et_salidas[1] = et_entrada
    /\ (Len(et_salidas) = 2 /\ et_entrada \in Vocabulario) =>
          et_salidas[2] = et_salidas[1]


-----------------------------------------------------------------------------
(* Claims on upsert_data (SpecUpsert) *)

\* C9: after any sequence of upsert_data calls the table holds no two rows
\* with the same key value.
C9_SinClaveRepetida ==
    \A k \in DOMAIN tabla.filas : tabla.filas[k] <= 1


-----------------------------------------------------------------------------
(* Claims on procesar_licitaciones_con_progreso (SpecLicitaciones) *)

\* the processing of row throws at some step: a field of the record cannot
\* be read, the text is no str, or the matcher has no name to return
LanzaEnFila(row) ==
    \/ {"texto_licitaciones", "id_norma"} # lic_columnas
    \/ row.texto.tipo = "no_str"
    \/ row.texto.tipo = "str" /\ df_empresas = <<>>

\* C8: no exception escapes the call; every record iterated has its entry in
\* resultados, in input order, empty for a record with null text and for a
\* record whose processing throws at any step; the returned list has one
\* entry per input record.
C8_NuncaLanza ==
    /\ lic_pc # "raised"
    /\ Len(lic_resultados) = Len(lic_filas)
    /\ \A i \in 1..Len(lic_resultados) :
          (lic_filas[i].texto.tipo = "nulo" \/ LanzaEnFila(lic_filas[i]))
              => lic_resultados[i] = {}
    /\ lic_pc = "returned" => Len(lic_resultados) = lic_total

-----------------------------------------------------------------------------
(* Claims on procesar_licitaciones_con_progreso: the match lists *)

\* C16 as stated: every match list appended to resultados has at most one
\* (cuit, nombre) pair per cuit and no pair whose cuit is missing, whatever
\* the registry table.
C16_UnParPorCuit ==
    \A i \in 1..Len(lic_resultados) :
        /\ \A a, b \in lic_resultados[i] : a.cuit = b.cuit => a = b
        /\ \A a \in lic_resultados[i] : a.cuit # "None"

-----------------------------------------------------------------------------
(* Claims on procesar_licitaciones (SpecPdf) *)

\* C17 as stated: whenever a pass has returned, it has produced one text per
\* row, and errores_pdf_normas holds one entry for each row of that pass
\* whose download or text extraction failed, in order, and nothing else.
C17_FallosDeLaUltimaPasada ==
    pdf_pc = "returned" =>
        /\ Len(textos_pdf) = pdf_total
        /\ [i \in 1..Len(errores_pdf_normas) |-> errores_pdf_normas[i].id_norma]
              = pdf_fallos

-----------------------------------------------------------------------------
(* Claims on normalizar_sufijos (SpecSufijos) *)

\* the name has a variant of the suffix 'S A': r'\bS[.\s]*A[.\s]*\b' matches
\* somewhere, in any letter case
TieneSufijoSA(s) == \E i \in 1..Len(s) : Coincide(s, i, <<"S", "A">>) # 0

\* C11 as stated: for every name with a variant of the suffix 'S A', at the
\* end or followed by further text or punctuation, the normalized name
\* contains 'S.A.' and normalizing it again returns it unchanged.
C11_CanonicoEIdempotente ==
    (~suf_entrada.nulo /\ TieneSufijoSA(suf_entrada.s)) =>
        /\ Len(suf_salidas) >= 1 =>
              Contiene(<<"S", ".", "A", ".">>, suf_salidas[1].s)
        /\ Len(suf_salidas) = 2 => suf_salidas[2] = suf_salidas[1]

-----------------------------------------------------------------------------
(* Claims on buscar_empresas_fuzzy (SpecFuzzy) *)

\* the words of `nombre` stand in `palabras` one after the other
ContieneNombre(palabras, nombre) ==
    \E i \in 0..(Len(palabras) - Len(nombre)) :
        \A k \in 1..Len(nombre) : Upper(palabras[i + k]) = nombre[k]

\* C12 as stated: the call returns, and every name of empresas_normalizadas
\* that the text contains, in any letter case, is among the names returned,
\* for every threshold up to 100 and every number of words of the text.
C12_NombreExactoDevuelto ==
    fz_pc \in {"returned", "raised"} =>
        \A n \in 1..Len(fz_empresas) :
            ContieneNombre(fz_texto, fz_empresas[n]) =>
                fz_pc = "returned" /\ fz_empresas[n] \in fz_ret

=============================================================================
